---- MODULE Spec2Model ----
(***************************************************************************)
(* A model of configs/config.py (BaseConfig, clean_opt, is_url and the two *)
(* path resolvers) and of main.py.  Strings that the code inspects         *)
(* character by character are sequences of one-character strings.          *)
(***************************************************************************)
EXTENDS Integers, Sequences, FiniteSets, TLC

VARIABLES
    registry,   \* OmegaConf's process-wide resolver table: name -> closure
    fs,         \* the paths that exist on the filesystem
    yaml,       \* the document stored at the configuration file's path
    defaults,   \* the schema classes' declared defaults (class-level state)
    last,       \* the most recent call of the sequential program and its outcome
    pc,         \* threads: position of each thread inside load
    tvp,        \* threads: the validate_paths argument of each thread's call
    tres,       \* threads: what each thread's call produced
    serialized, \* threads: whether the callers serialize load with a lock
    lock        \* threads: the holder of that lock (0: free)

vars == <<registry, fs, yaml, defaults, last, pc, tvp, tres, serialized, lock>>

(***************************************************************************)
(* Bounds of the model.                                                    *)
(***************************************************************************)
MaxArgLen == 4
MaxResolverArgs == 2
MaxOverrides == 2

(***************************************************************************)
(* Character strings.                                                      *)
(***************************************************************************)
Str0(n, A) == UNION {[1..k -> A] : k \in 0..n}

\* ord(c) for the characters the model uses; sorted() compares by it.
CharCode(c) ==
    CASE c = "*" -> 42
      [] c = "-" -> 45
      [] c = "." -> 46
      [] c = "/" -> 47
      [] c = "3" -> 51
      [] c = ":" -> 58
      [] c = "=" -> 61
      [] c = "S" -> 83
      [] c = "_" -> 95
      [] c = "a" -> 97
      [] c = "b" -> 98
      [] c = "s" -> 115
      [] OTHER -> 120

Contains(s, c) == \E i \in 1..Len(s) : s[i] = c

SplitAt(s, i) == <<SubSeq(s, 1, i - 1), SubSeq(s, i + 1, Len(s))>>

\* s.split(c, 1) for a string that contains c
RECURSIVE Find(_, _, _)
Find(s, c, i) == IF s[i] = c THEN i ELSE Find(s, c, i + 1)

SplitFirst(s, c) == SplitAt(s, Find(s, c, 1))

RECURSIVE LStrip(_, _)
LStrip(s, c) == IF s # <<>> /\ Head(s) = c THEN LStrip(Tail(s), c) ELSE s

RECURSIVE RStrip(_, _)
RStrip(s, c) ==
    IF s # <<>> /\ s[Len(s)] = c THEN RStrip(SubSeq(s, 1, Len(s) - 1), c) ELSE s

\* s.strip(c)
Strip(s, c) == RStrip(LStrip(s, c), c)

\* s.replace(a, b) for one-character a and b
Replace(s, a, b) == [i \in 1..Len(s) |-> IF s[i] = a THEN b ELSE s[i]]

(***************************************************************************)
(* clean_opt                                                               *)
(***************************************************************************)
TrueText == <<"T", "r", "u", "e">>

\* A slip of clean_opt: the hyphens of the whole argument are replaced.
clean_opt_replace_all(arg) ==
    LET a1    == IF ~Contains(arg, "=") THEN arg \o <<"=">> \o TrueText ELSE arg
        parts == SplitFirst(a1, "=")
    IN  Replace(Strip(parts[1], "-"), "-", "_") \o <<"=">>
            \o Replace(parts[2], "-", "_")

clean_opt(arg) ==
    LET a1    == IF ~Contains(arg, "=") THEN arg \o <<"=">> \o TrueText ELSE arg
        parts == SplitFirst(a1, "=")
        name  == Replace(Strip(parts[1], "-"), "-", "_")
    IN  name \o <<"=">> \o parts[2]

ArgAlphabet == {"-", "=", "a", "b"}
ArgStrings == Str0(MaxArgLen, ArgAlphabet)

(***************************************************************************)
(* is_url: re.match(r"[a-z0-9]+://.*", path)                               *)
(***************************************************************************)
LowerAlnum ==
    {"a", "b", "c", "d", "e", "f", "g", "h", "i", "j", "k", "l", "m", "n", "o",
     "p", "q", "r", "s", "t", "u", "v", "w", "x", "y", "z",
     "0", "1", "2", "3", "4", "5", "6", "7", "8", "9"}

is_url(path) ==
    \E n \in 1..Len(path) :
        /\ \A i \in 1..n : path[i] \in LowerAlnum
        /\ Len(path) >= n + 3
        /\ SubSeq(path, n + 1, n + 3) = <<":", "/", "/">>

(***************************************************************************)
(* glob and sorted, as path_glob uses them                                 *)
(***************************************************************************)
RECURSIVE GlobMatch(_, _)
GlobMatch(pat, path) ==
    IF pat = <<>> THEN path = <<>>
    ELSE IF Head(pat) = "*"
        THEN \/ GlobMatch(Tail(pat), path)
             \/ path # <<>> /\ Head(path) # "/" /\ GlobMatch(pat, Tail(path))
        ELSE path # <<>> /\ Head(path) = Head(pat) /\ GlobMatch(Tail(pat), Tail(path))

glob(pat, files) == {p \in files : GlobMatch(pat, p)}

RECURSIVE StrLess(_, _)
StrLess(a, b) ==
    IF b = <<>> THEN FALSE
    ELSE IF a = <<>> THEN TRUE
    ELSE IF Head(a) = Head(b) THEN StrLess(Tail(a), Tail(b))
    ELSE CharCode(Head(a)) < CharCode(Head(b))

RECURSIVE sorted(_)
sorted(S) ==
    IF S = {} THEN <<>>
    ELSE LET m == CHOOSE x \in S : \A y \in S \ {x} : StrLess(x, y)
         IN  <<m>> \o sorted(S \ {m})

Ok(v) == [kind |-> "ok", val |-> v]
Raise(type, msg) == [kind |-> "raise", type |-> type, msg |-> msg]

(***************************************************************************)
(* The closures _register_resolvers builds                                 *)
(***************************************************************************)
\* A slip of path_glob: an empty expansion is skipped whatever validate_paths is.
RECURSIVE path_glob_loop_lenient(_, _, _, _)
path_glob_loop_lenient(validate_paths, paths, out, files) ==
    IF paths = <<>> THEN Ok(out)
    ELSE path_glob_loop_lenient(validate_paths, Tail(paths),
                                out \o sorted(glob(Head(paths), files)), files)

RECURSIVE path_glob_loop(_, _, _, _)

\* the body of the loop, with matches = sorted(glob(path))
path_glob_body(validate_paths, paths, out, files, matches) ==
    IF matches = <<>> /\ validate_paths
        THEN Raise("FileNotFoundError",
                   Head(paths) \o <<" does not match any files or dirs">>)
        ELSE path_glob_loop(validate_paths, Tail(paths), out \o matches, files)

path_glob_loop(validate_paths, paths, out, files) ==
    IF paths = <<>> THEN Ok(out)
    ELSE path_glob_body(validate_paths, paths, out, files,
                        sorted(glob(Head(paths), files)))

path_glob(validate_paths, paths, files) ==
    path_glob_loop(validate_paths, paths, <<>>, files)

\* ", ".join(paths)
RECURSIVE Join(_)
Join(paths) ==
    IF paths = <<>> THEN <<>>
    ELSE IF Len(paths) = 1 THEN paths[1]
    ELSE paths[1] \o <<", ">> \o Join(Tail(paths))

\* A slip of path_choose: the last qualifying argument is returned.
RECURSIVE path_choose_last(_, _, _)
path_choose_last(validate_paths, paths, files) ==
    IF paths = <<>>
        THEN IF validate_paths THEN Raise("FileNotFoundError", <<>>) ELSE Ok(<<>>)
    ELSE LET n == Len(paths) IN
         IF is_url(paths[n]) \/ paths[n] \in files THEN Ok(paths[n])
         ELSE path_choose_last(validate_paths, SubSeq(paths, 1, n - 1), files)

RECURSIVE path_choose_loop(_, _, _, _)
path_choose_loop(validate_paths, rest, paths, files) ==
    IF rest = <<>>
        THEN IF validate_paths
                 THEN Raise("FileNotFoundError", Join(paths))
                 ELSE Ok(<<>>)
    ELSE IF is_url(Head(rest)) \/ Head(rest) \in files
        THEN Ok(Head(rest))
        ELSE path_choose_loop(validate_paths, Tail(rest), paths, files)

path_choose(validate_paths, paths, files) ==
    path_choose_loop(validate_paths, paths, paths, files)

(***************************************************************************)
(* The resolver registry                                                   *)
(***************************************************************************)
Closure(fn, validate_paths) == [fn |-> fn, validate_paths |-> validate_paths]

\* A slip of the registration: replace=False semantics, the first binding stays.
register_keep_first(reg, name, resolver) ==
    [n \in DOMAIN reg \cup {name} |-> IF n \in DOMAIN reg THEN reg[n] ELSE resolver]

\* om.register_new_resolver(name, resolver, replace=True)
register_new_resolver(reg, name, resolver) ==
    [n \in DOMAIN reg \cup {name} |-> IF n = name THEN resolver ELSE reg[n]]

register_resolvers(reg, validate_paths) ==
    register_new_resolver(
        register_new_resolver(reg, "path.glob", Closure("path_glob", validate_paths)),
        "path.choose", Closure("path_choose", validate_paths))

\* What OmegaConf does for ${name:args}: look the name up now, call the closure.
CallResolver(reg, name, args, files) ==
    IF reg[name].fn = "path_glob"
        THEN path_glob(reg[name].validate_paths, args, files)
        ELSE path_choose(reg[name].validate_paths, args, files)

NoResolvers == [n \in {} |-> Closure("path_glob", TRUE)]

(***************************************************************************)
(* Inputs of the resolvers                                                 *)
(***************************************************************************)
FileUniverse == {<<"/", "a">>, <<"/", "a", "b">>, <<"/", "b">>}
Patterns == {<<"/", "a", "*">>, <<"/", "*", "b">>, <<"/", "b">>, <<"/", "s", "*">>}
Candidates ==
    {<<"s", "3", ":", "/", "/", "a">>, <<"S", ":", "/", "/", "a">>,
     <<":", "/", "/", "a">>, <<"/", "a">>, <<"/", "b">>}
ArgLists(S) == UNION {[1..k -> S] : k \in 0..MaxResolverArgs}

(***************************************************************************)
(* Names: fields of the schema classes, enumeration values, document keys  *)
(***************************************************************************)
F_a == <<"a">>
F_b == <<"b">>
F_c == <<"c">>
F_option_selector ==
    <<"o", "p", "t", "i", "o", "n", "_", "s", "e", "l", "e", "c", "t", "o", "r">>
F_config_class_a ==
    <<"c", "o", "n", "f", "i", "g", "_", "c", "l", "a", "s", "s", "_", "a">>
F_list_a == <<"l", "i", "s", "t", "_", "a">>
K_training == <<"t", "r", "a", "i", "n", "i", "n", "g">>

\* class OptionSelector(StrEnum)
OptionSelector ==
    {<<"d", "e", "f", "a", "u", "l", "t">>,
     <<"o", "p", "t", "i", "o", "n", "_", "a">>,
     <<"o", "p", "t", "i", "o", "n", "_", "b">>}

(***************************************************************************)
(* Values of a document or a configuration                                 *)
(***************************************************************************)
NoneV == [t |-> "none"]
IntV(i) == [t |-> "int", i |-> i]
BoolV(b) == [t |-> "bool", b |-> b]
StrV(s) == [t |-> "str", s |-> s]
ListV(l) == [t |-> "list", l |-> l]
\* a mapping, as the ordered <<key, value>> pairs YAML or a dict gives
MapV(m) == [t |-> "map", m |-> m]
\* the placeholder ${name:args}
InterpV(name, args) == [t |-> "interp", name |-> name, args |-> args]

(***************************************************************************)
(* The schema: the dataclasses ConfigClassA and ConfigClassC               *)
(***************************************************************************)
FieldType(cls) ==
    IF cls = "ConfigClassA"
        THEN (F_list_a :> [k |-> "list_str", optional |-> TRUE])
        ELSE (F_a :> [k |-> "int", optional |-> FALSE])
          @@ (F_b :> [k |-> "float", optional |-> TRUE])
          @@ (F_c :> [k |-> "bool", optional |-> FALSE])
          @@ (F_option_selector :> [k |-> "enum", optional |-> FALSE])
          @@ (F_config_class_a :> [k |-> "struct", optional |-> FALSE])

\* The defaults the dataclasses declare.
ClassDefaults ==
    [ConfigClassA |-> (F_list_a :> NoneV),
     ConfigClassC |-> (F_a :> IntV(0))
                   @@ (F_b :> NoneV)
                   @@ (F_c :> BoolV(FALSE))
                   @@ (F_option_selector :> StrV(<<"d", "e", "f", "a", "u", "l", "t">>))
                   @@ (F_config_class_a :> [cls |-> "ConfigClassA"])]

\* om.structured(cls): a new typed config holding the class's defaults
structured(cls, defs) ==
    [cls |-> cls,
     f   |-> [k \in DOMAIN defs[cls] |->
                 IF FieldType(cls)[k].k = "struct"
                     THEN [cls |-> defs[cls][k].cls, f |-> defs[defs[cls][k].cls]]
                     ELSE defs[cls][k]]]

\* A slip: the merged config is the class's own default object.
class_defaults_written_back(defs, conf) ==
    [defs EXCEPT !["ConfigClassC"] =
        [k \in DOMAIN conf.f |->
            IF k = F_config_class_a THEN defs["ConfigClassC"][k] ELSE conf.f[k]]]

\* The class-level defaults after a call has merged onto om.structured(cls):
\* the config is a copy, nothing is written back to the class.
class_defaults_after(defs, conf) == defs

(***************************************************************************)
(* Exceptions                                                              *)
(***************************************************************************)
\* the classes of omegaconf.errors the model raises
IsOmegaConfBaseException(type) ==
    type \in {"ConfigKeyError", "ValidationError", "InterpolationResolutionError"}

\* except OmegaConfBaseException as e: raise ConfigurationError(str(e))
wrap(r) ==
    IF r.kind = "raise" /\ IsOmegaConfBaseException(r.type)
        THEN Raise("ConfigurationError", r.msg)
        ELSE r

(***************************************************************************)
(* Validation of a value against a field's type                            *)
(***************************************************************************)
TrueWords == {<<"t", "r", "u", "e">>, <<"T", "r", "u", "e">>}
FalseWords == {<<"f", "a", "l", "s", "e">>, <<"F", "a", "l", "s", "e">>}

Invalid(key, what) == Raise("ValidationError", key \o <<": ", what>>)

validate(key, ty, v) ==
    IF v.t = "interp" THEN Ok(v)
    ELSE IF v.t = "none"
        THEN IF ty.optional THEN Ok(v) ELSE Invalid(key, "field is not Optional")
    ELSE IF ty.k = "int"
        THEN IF v.t = "int" THEN Ok(v) ELSE Invalid(key, "could not convert to Integer")
    ELSE IF ty.k = "float"
        THEN IF v.t = "int" THEN Ok(v) ELSE Invalid(key, "could not convert to Float")
    ELSE IF ty.k = "bool"
        THEN IF v.t = "bool" THEN Ok(v)
             ELSE IF v.t = "int" THEN Ok(BoolV(v.i # 0))
             ELSE IF v.t = "str" /\ v.s \in TrueWords THEN Ok(BoolV(TRUE))
             ELSE IF v.t = "str" /\ v.s \in FalseWords THEN Ok(BoolV(FALSE))
             ELSE Invalid(key, "is not a valid bool")
    ELSE IF ty.k = "enum"
        THEN IF v.t = "str" /\ v.s \in OptionSelector THEN Ok(v)
             ELSE Invalid(key, "Invalid value, expected one of [default, option_a, option_b]")
    ELSE IF ty.k = "list_str"
        THEN IF v.t = "list" /\ \A i \in 1..Len(v.l) : v.l[i].t \in {"str", "interp"}
                 THEN Ok(v)
                 ELSE Invalid(key, "Invalid value assigned to a list of str")
    ELSE Invalid(key, "Invalid type assigned to a structured config")

(***************************************************************************)
(* om.merge(conf, mapping): the pairs are merged in their order            *)
(***************************************************************************)
RECURSIVE om_merge(_, _)

\* the node for key k is set to the validated (or merged) value r
om_merge_set(conf, k, r, rest) ==
    IF r.kind = "raise" THEN r ELSE om_merge([conf EXCEPT !.f[k] = r.val], rest)

om_merge_item(conf, k, v, ty, rest) ==
    IF ty.k = "struct" /\ v.t = "map"
        THEN om_merge_set(conf, k, om_merge(conf.f[k], v.m), rest)
        ELSE om_merge_set(conf, k, validate(k, ty, v), rest)

om_merge(conf, pairs) ==
    IF pairs = <<>> THEN Ok(conf)
    ELSE IF pairs[1][1] \notin DOMAIN conf.f
        THEN Raise("ConfigKeyError",
                   <<"Key '">> \o pairs[1][1] \o <<"' not in '", conf.cls, "'">>)
    ELSE om_merge_item(conf, pairs[1][1], pairs[1][2],
                       FieldType(conf.cls)[pairs[1][1]], Tail(pairs))

(***************************************************************************)
(* om.from_dotlist(overrides)                                              *)
(***************************************************************************)
RECURSIVE SplitAll(_, _)
SplitAll(s, c) ==
    IF ~Contains(s, c) THEN <<s>>
    ELSE LET parts == SplitFirst(s, c) IN <<parts[1]>> \o SplitAll(parts[2], c)

Digits == {"0", "1", "2", "3", "4", "5", "6", "7", "8", "9"}
DigitVal(c) == CHOOSE d \in 0..9 : <<"0", "1", "2", "3", "4", "5", "6", "7", "8", "9">>[d + 1] = c

RECURSIVE ParseInt(_, _)
ParseInt(s, acc) == IF s = <<>> THEN acc ELSE ParseInt(Tail(s), 10 * acc + DigitVal(Head(s)))

\* yaml.load of the text after '=': the scalars and flow lists the model uses
yaml_load(text) ==
    IF text = <<>> THEN Ok(NoneV)
    ELSE IF text \in TrueWords \cup {<<"T", "R", "U", "E">>} THEN Ok(BoolV(TRUE))
    ELSE IF text \in FalseWords \cup {<<"F", "A", "L", "S", "E">>} THEN Ok(BoolV(FALSE))
    ELSE IF \A i \in 1..Len(text) : text[i] \in Digits THEN Ok(IntV(ParseInt(text, 0)))
    ELSE IF Head(text) = "["
        THEN IF text[Len(text)] = "]" /\ Len(text) > 2
                 THEN LET items == SplitAll(SubSeq(text, 2, Len(text) - 1), ",")
                      IN  Ok(ListV([i \in 1..Len(items) |-> StrV(items[i])]))
             ELSE IF text = <<"[", "]">> THEN Ok(ListV(<<>>))
             ELSE Raise("ParserError", <<"while parsing a flow sequence: ">> \o text)
    ELSE Ok(StrV(text))

HasKey(pairs, k) == \E i \in 1..Len(pairs) : pairs[i][1] = k
ValueOf(pairs, k) == pairs[CHOOSE i \in 1..Len(pairs) : pairs[i][1] = k][2]
SetKey(pairs, k, v) ==
    IF HasKey(pairs, k)
        THEN [i \in 1..Len(pairs) |-> IF pairs[i][1] = k THEN <<k, v>> ELSE pairs[i]]
        ELSE Append(pairs, <<k, v>>)

\* OmegaConf.update(conf, "a.b.c", value)
RECURSIVE update(_, _, _)
update(pairs, path, value) ==
    IF Len(path) = 1 THEN SetKey(pairs, path[1], value)
    ELSE LET sub == IF HasKey(pairs, path[1]) /\ ValueOf(pairs, path[1]).t = "map"
                        THEN ValueOf(pairs, path[1]).m
                        ELSE <<>>
         IN  SetKey(pairs, path[1], MapV(update(sub, Tail(path), value)))

\* the key and the value of one entry: "=" absent gives the value None
entry_key(arg) == IF Contains(arg, "=") THEN SplitFirst(arg, "=")[1] ELSE arg
entry_value(arg) ==
    IF Contains(arg, "=") THEN yaml_load(SplitFirst(arg, "=")[2]) ELSE Ok(NoneV)

\* A slip: load cleans each entry itself, as the command line does.
RECURSIVE from_dotlist_cleaning(_, _)
from_dotlist_cleaning_set(rest, conf, key, value) ==
    IF value.kind = "raise" THEN value
    ELSE from_dotlist_cleaning(rest, update(conf, SplitAll(key, "."), value.val))
from_dotlist_cleaning(dotlist, conf) ==
    IF dotlist = <<>> THEN Ok(conf)
    ELSE from_dotlist_cleaning_set(Tail(dotlist), conf,
             entry_key(clean_opt(Head(dotlist))), entry_value(clean_opt(Head(dotlist))))

\* A slip: an entry does not replace an earlier entry for the same key.
RECURSIVE from_dotlist_first_wins(_, _)
from_dotlist_first_wins_set(rest, conf, key, value) ==
    IF value.kind = "raise" THEN value
    ELSE from_dotlist_first_wins(rest,
             IF HasKey(conf, key) THEN conf
             ELSE update(conf, SplitAll(key, "."), value.val))
from_dotlist_first_wins(dotlist, conf) ==
    IF dotlist = <<>> THEN Ok(conf)
    ELSE from_dotlist_first_wins_set(Tail(dotlist), conf,
             entry_key(Head(dotlist)), entry_value(Head(dotlist)))

RECURSIVE from_dotlist(_, _)

\* OmegaConf.update(self, key, value) for one entry
from_dotlist_set(rest, conf, key, value) ==
    IF value.kind = "raise" THEN value
    ELSE from_dotlist(rest, update(conf, SplitAll(key, "."), value.val))

from_dotlist(dotlist, conf) ==
    IF dotlist = <<>> THEN Ok(conf)
    ELSE from_dotlist_set(Tail(dotlist), conf,
                          entry_key(Head(dotlist)), entry_value(Head(dotlist)))

(***************************************************************************)
(* om.load, raw[key], update_legacy_settings                               *)
(***************************************************************************)
om_load(doc) ==
    IF doc.t = "missing"
        THEN Raise("FileNotFoundError", <<"No such file or directory">>)
    ELSE IF doc.t = "malformed"
        THEN Raise("ScannerError", <<"mapping values are not allowed here">>)
    ELSE Ok(doc)

\* A slip: the lookup raises the builtin KeyError, as a plain dict would.
getitem_keyerror(raw, key) ==
    IF HasKey(raw.m, key) THEN Ok(ValueOf(raw.m, key))
    ELSE Raise("KeyError", <<"Missing key ">> \o key)

\* raw[key] on the DictConfig om.load returned
getitem(raw, key) ==
    IF HasKey(raw.m, key) THEN Ok(ValueOf(raw.m, key))
    ELSE Raise("ConfigKeyError", <<"Missing key ">> \o key)

update_legacy_settings(config) == config

(***************************************************************************)
(* om.to_object(conf): placeholders are resolved, the object is built      *)
(***************************************************************************)
FieldOrder(cls) ==
    IF cls = "ConfigClassA" THEN <<F_list_a>>
    ELSE <<F_a, F_b, F_c, F_option_selector, F_config_class_a>>

\* the value a resolver's result becomes
resolved(name, r) ==
    IF r.kind = "raise"
        THEN Raise("InterpolationResolutionError",
                   <<r.type, " raised while resolving interpolation: ">> \o r.msg)
    ELSE IF name = "path.glob"
        THEN Ok(ListV([i \in 1..Len(r.val) |-> StrV(r.val[i])]))
        ELSE Ok(StrV(r.val))

resolve_interp(v, reg, files) == resolved(v.name, CallResolver(reg, v.name, v.args, files))

RECURSIVE resolve_list(_, _, _, _)
resolve_list_item(rest, done, reg, files, r) ==
    IF r.kind = "raise" THEN r
    ELSE resolve_list(rest, Append(done, r.val), reg, files)

resolve_list(items, done, reg, files) ==
    IF items = <<>> THEN Ok(ListV(done))
    ELSE resolve_list_item(Tail(items), done, reg, files,
             IF Head(items).t = "interp" THEN resolve_interp(Head(items), reg, files)
             ELSE Ok(Head(items)))

resolve_value(v, reg, files) ==
    IF v.t = "interp" THEN resolve_interp(v, reg, files)
    ELSE IF v.t = "list" THEN resolve_list(v.l, <<>>, reg, files)
    ELSE Ok(v)

RECURSIVE resolve_fields(_, _, _, _, _)
resolve_fields_set(conf, order, obj, reg, files, r) ==
    IF r.kind = "raise" THEN r
    ELSE resolve_fields(conf, Tail(order), obj @@ (Head(order) :> r.val), reg, files)

resolve_fields(conf, order, obj, reg, files) ==
    IF order = <<>> THEN Ok(obj)
    ELSE resolve_fields_set(conf, order, obj, reg, files,
             IF FieldType(conf.cls)[Head(order)].k = "struct"
                 THEN resolve_fields(conf.f[Head(order)],
                                     FieldOrder(conf.f[Head(order)].cls), <<>>, reg, files)
                 ELSE resolve_value(conf.f[Head(order)], reg, files))

to_object(conf, reg, files) ==
    resolve_fields(conf, FieldOrder(conf.cls), <<>>, reg, files)

(***************************************************************************)
(* BaseConfig.load and BaseConfig.new                                      *)
(***************************************************************************)
\* key=None
NoKey == <<"None">>

\* What a call leaves: its outcome, the step that failed, the registry and the
\* class-level defaults.
Result(out, stage, reg, defs) ==
    [out |-> wrap(out), stage |-> stage, registry |-> reg, defaults |-> defs]

Returned(r, reg, defs) ==
    Result(r, IF r.kind = "raise" THEN "materialize" ELSE "returned", reg, defs)

\* return cast(C, om.to_object(conf))
load_to_object(reg, defs, files, r5) ==
    IF r5.kind = "raise" THEN Result(r5, "overrides", reg, defs)
    ELSE Returned(to_object(r5.val, reg, files), reg,
                  class_defaults_after(defs, r5.val))

\* conf = om.merge(conf, om.from_dotlist(overrides))
load_dotlist(reg, defs, files, conf, dl) ==
    IF dl.kind = "raise" THEN Result(dl, "overrides", reg, defs)
    ELSE load_to_object(reg, defs, files, om_merge(conf, dl.val))

\* if overrides: ...
load_overrides(reg, defs, files, r4, overrides) ==
    IF r4.kind = "raise" THEN Result(r4, "merge", reg, defs)
    ELSE load_dotlist(reg, class_defaults_after(defs, r4.val), files, r4.val,
                      IF overrides = <<>> THEN Ok(<<>>)
                      ELSE from_dotlist(overrides, <<>>))

\* conf = om.merge(schema, raw)
load_merge(reg, defs, files, raw, overrides) ==
    load_overrides(reg, defs, files,
        IF raw.t # "map"
            THEN Raise("ValueError", <<"Invalid input. Supports one of dict, list, DictConfig, ListConfig, dataclass">>)
            ELSE om_merge(structured("ConfigClassC", defs), raw.m),
        overrides)

\* raw = cls.update_legacy_settings(raw)
load_migrate(reg, defs, files, r2, overrides) ==
    IF r2.kind = "raise" THEN Result(r2, "key", reg, defs)
    ELSE load_merge(reg, defs, files, update_legacy_settings(r2.val), overrides)

\* if key is not None: raw = raw[key]
load_key(reg, defs, files, r1, overrides, key) ==
    IF r1.kind = "raise" THEN Result(r1, "parse", reg, defs)
    ELSE load_migrate(reg, defs, files,
                      IF key = NoKey THEN r1 ELSE getitem(r1.val, key), overrides)

\* cls._register_resolvers(validate_paths); raw = om.load(str(path)); ...
load(reg0, defs, files, doc, overrides, key, validate_paths) ==
    load_key(register_resolvers(reg0, validate_paths), defs, files, om_load(doc),
             overrides, key)

\* return cast(C, om.to_object(conf))
new_to_object(reg, defs, files, r1) ==
    IF r1.kind = "raise" THEN Result(r1, "merge", reg, defs)
    ELSE Returned(to_object(r1.val, reg, files), reg,
                  class_defaults_after(defs, r1.val))

new_merge(reg, defs, files, conf, kwargs) ==
    new_to_object(reg, defs, files,
                  IF kwargs = <<>> THEN Ok(conf) ELSE om_merge(conf, kwargs))

new(reg0, defs, files, kwargs) ==
    new_merge(register_resolvers(reg0, TRUE), defs, files,
              structured("ConfigClassC", defs), kwargs)

(***************************************************************************)
(* Inputs of load, new and main                                            *)
(***************************************************************************)
LoaderFiles == {<<"/", "a">>, <<"/", "a", "b">>}

DocMissing == [t |-> "missing"]
DocMalformed == [t |-> "malformed"]
\* a: 5, c: true
Doc_a_c == MapV(<< <<F_a, IntV(5)>>, <<F_c, BoolV(TRUE)>> >>)
\* option_selector: bogus
Doc_bad_enum == MapV(<< <<F_option_selector, StrV(<<"b", "o", "g", "u", "s">>)>> >>)
\* training: {a: 5}
Doc_training == MapV(<< <<K_training, MapV(<< <<F_a, IntV(5)>> >>)>> >>)
\* config_class_a: {list_a: "${path.glob:/a*,/s*}"}
Doc_glob ==
    MapV(<< <<F_config_class_a,
              MapV(<< <<F_list_a,
                        InterpV("path.glob", << <<"/", "a", "*">>, <<"/", "s", "*">> >>)>> >>)>> >>)
\* config_class_a: {list_a: ["${path.choose:/s,S://a}"]}
Doc_choose ==
    MapV(<< <<F_config_class_a,
              MapV(<< <<F_list_a,
                        ListV(<<InterpV("path.choose",
                                        << <<"/", "s">>, <<"S", ":", "/", "/", "a">> >>)>>)>> >>)>> >>)

Docs == {DocMissing, DocMalformed, Doc_a_c, Doc_bad_enum, Doc_training, Doc_glob, Doc_choose}

\* "c=true", "c=false", "--c", "a=["
E_c_true == <<"c", "=", "t", "r", "u", "e">>
E_c_false == <<"c", "=", "f", "a", "l", "s", "e">>
E_dash_c == <<"-", "-", "c">>
E_bad_yaml == <<"a", "=", "[">>
Entries == {E_c_true, E_c_false, E_dash_c, E_bad_yaml}

\* "--c", "c=false", "--config-class-a.list-a=[/a]"
A_dash_c == <<"-", "-", "c">>
A_c_false == <<"c", "=", "f", "a", "l", "s", "e">>
A_list_a == <<"-", "-", "c", "o", "n", "f", "i", "g", "-", "c", "l", "a", "s", "s", "-", "a", ".", "l", "i", "s", "t", "-", "a", "=", "[", "/", "a", "]">>
Argv == {A_dash_c, A_c_false, A_list_a}

Lists(S) == UNION {[1..k -> S] : k \in 0..MaxOverrides}

Kwargs ==
    {<<>>,
     << <<F_a, IntV(7)>> >>,
     << <<F_a, StrV(<<"x">>)>> >>,
     << <<F_config_class_a, MapV(<< <<F_list_a, InterpV("path.glob", << <<"/", "s", "*">> >>)>> >>)>> >>}

(***************************************************************************)
(* The sequential program: calls of load, new and main.py                  *)
(***************************************************************************)
Threads == {1, 2}
NoCall == [op |-> "none"]

InitShared ==
    /\ registry = NoResolvers
    /\ defaults = ClassDefaults
    /\ last = NoCall
    /\ pc = [t \in Threads |-> "idle"]
    /\ tvp = [t \in Threads |-> TRUE]
    /\ tres = [t \in Threads |-> NoCall]
    /\ lock = 0

Init ==
    /\ InitShared
    /\ fs = LoaderFiles
    /\ yaml \in Docs
    /\ serialized = TRUE

LoadCall(caller, argv, overrides, key, validate_paths) ==
    LET r == load(registry, defaults, fs, yaml, overrides, key, validate_paths)
    IN  /\ registry' = r.registry
        /\ defaults' = r.defaults
        /\ last' = [op |-> "load", caller |-> caller, argv |-> argv,
                    overrides |-> overrides, key |-> key,
                    validate_paths |-> validate_paths, before |-> registry,
                    stage |-> r.stage, out |-> r.out]
        /\ UNCHANGED <<fs, yaml, pc, tvp, tres, serialized, lock>>

\* The calls of load: every list of entries without a key, and the key
\* "training" with at most one entry.
LoadArgs ==
    {<<overrides, NoKey>> : overrides \in Lists(Entries)}
        \cup {<<overrides, K_training>> : overrides \in {<<>>} \cup {<<e>> : e \in Entries}}

Load ==
    \E args \in LoadArgs, validate_paths \in BOOLEAN :
        LoadCall("direct", args[1], args[1], args[2], validate_paths)

\* main.py: ConfigClassC.load(yaml_path, [clean_opt(s) for s in args_list])
Main ==
    \E args_list \in Lists(Argv) :
        LoadCall("main", args_list,
                 [i \in 1..Len(args_list) |-> clean_opt(args_list[i])], NoKey, TRUE)

New ==
    \E kwargs \in Kwargs :
        LET r == new(registry, defaults, fs, kwargs)
        IN  /\ registry' = r.registry
            /\ defaults' = r.defaults
            /\ last' = [op |-> "new", kwargs |-> kwargs, validate_paths |-> TRUE,
                        before |-> registry, stage |-> r.stage, out |-> r.out]
            /\ UNCHANGED <<fs, yaml, pc, tvp, tres, serialized, lock>>

Next == Load \/ Main \/ New

Spec == Init /\ [][Next]_vars

(***************************************************************************)
(* clean_opt alone                                                         *)
(***************************************************************************)
InitCleanOpt ==
    /\ InitShared
    /\ fs = LoaderFiles
    /\ yaml = Doc_a_c
    /\ serialized = TRUE

CleanOpt ==
    /\ \E arg \in ArgStrings :
           last' = [op |-> "clean_opt", arg |-> arg, out |-> clean_opt(arg)]
    /\ UNCHANGED <<registry, fs, yaml, defaults, pc, tvp, tres, serialized, lock>>

SpecCleanOpt == InitCleanOpt /\ [][CleanOpt]_vars

(***************************************************************************)
(* The resolvers, called through the registry as a placeholder calls them  *)
(***************************************************************************)
InitResolvers ==
    /\ InitShared
    /\ fs \in SUBSET FileUniverse
    /\ yaml = Doc_a_c
    /\ serialized = TRUE

RegisterResolvers ==
    /\ \E validate_paths \in BOOLEAN :
           /\ registry' = register_resolvers(registry, validate_paths)
           /\ last' = [op |-> "register", validate_paths |-> validate_paths]
    /\ UNCHANGED <<fs, yaml, defaults, pc, tvp, tres, serialized, lock>>

Resolve(name, args) ==
    /\ name \in DOMAIN registry
    /\ last' = [op |-> name, args |-> args,
                validate_paths |-> registry[name].validate_paths,
                out |-> CallResolver(registry, name, args, fs)]
    /\ UNCHANGED <<registry, fs, yaml, defaults, pc, tvp, tres, serialized, lock>>

PathGlob == \E args \in ArgLists(Patterns) : Resolve("path.glob", args)

PathChoose == \E args \in ArgLists(Candidates) : Resolve("path.choose", args)

NextResolvers == RegisterResolvers \/ PathGlob \/ PathChoose

SpecResolvers == InitResolvers /\ [][NextResolvers]_vars

(***************************************************************************)
(* Two threads calling load.  A thread registers path.glob, then           *)
(* path.choose, then runs the rest of load; the placeholder is looked up   *)
(* in the registry when to_object resolves it.  With serialized, callers   *)
(* hold a lock around each call.                                           *)
(***************************************************************************)
InitThreads ==
    /\ InitShared
    /\ fs = LoaderFiles
    /\ yaml \in {Doc_glob, Doc_choose}
    /\ serialized \in BOOLEAN

ThreadCall(t) ==
    /\ pc[t] = "idle"
    /\ serialized => lock = 0
    /\ \E validate_paths \in BOOLEAN : tvp' = [tvp EXCEPT ![t] = validate_paths]
    /\ lock' = IF serialized THEN t ELSE lock
    /\ pc' = [pc EXCEPT ![t] = "register_glob"]
    /\ tres' = [tres EXCEPT ![t] = NoCall]
    /\ UNCHANGED <<registry, fs, yaml, defaults, last, serialized>>

ThreadRegisterGlob(t) ==
    /\ pc[t] = "register_glob"
    /\ registry' = register_new_resolver(registry, "path.glob",
                                         Closure("path_glob", tvp[t]))
    /\ pc' = [pc EXCEPT ![t] = "register_choose"]
    /\ UNCHANGED <<fs, yaml, defaults, last, tvp, tres, serialized, lock>>

ThreadRegisterChoose(t) ==
    /\ pc[t] = "register_choose"
    /\ registry' = register_new_resolver(registry, "path.choose",
                                         Closure("path_choose", tvp[t]))
    /\ pc' = [pc EXCEPT ![t] = "try"]
    /\ UNCHANGED <<fs, yaml, defaults, last, tvp, tres, serialized, lock>>

ThreadReturn(t) ==
    /\ pc[t] = "try"
    /\ tres' = [tres EXCEPT ![t] =
                   [op |-> "load", validate_paths |-> tvp[t],
                    out |-> load_key(registry, defaults, fs, om_load(yaml),
                                     <<>>, NoKey).out]]
    /\ pc' = [pc EXCEPT ![t] = "idle"]
    /\ lock' = 0
    /\ UNCHANGED <<registry, fs, yaml, defaults, last, tvp, serialized>>

NextThreads ==
    \E t \in Threads :
        \/ ThreadCall(t)
        \/ ThreadRegisterGlob(t)
        \/ ThreadRegisterChoose(t)
        \/ ThreadReturn(t)

SpecThreads == InitThreads /\ [][NextThreads]_vars

(***************************************************************************)
(* Properties.  The helpers below say what a claim expects in its own      *)
(* terms; they are not used by the model above.                            *)
(***************************************************************************)
Min(S) == CHOOSE x \in S : \A y \in S : x <= y
Max(S) == CHOOSE x \in S : \A y \in S : x >= y

\* the position of the first "=", or one past the end
EqPos(arg) ==
    IF \E i \in 1..Len(arg) : arg[i] = "="
        THEN Min({i \in 1..Len(arg) : arg[i] = "="})
        ELSE Len(arg) + 1
ArgKey(arg) == SubSeq(arg, 1, EqPos(arg) - 1)
ArgVal(arg) ==
    IF EqPos(arg) <= Len(arg) THEN SubSeq(arg, EqPos(arg) + 1, Len(arg)) ELSE TrueText
NonDash(k) == {i \in 1..Len(k) : k[i] # "-"}
StrippedBoth(k) == IF NonDash(k) = {} THEN <<>> ELSE SubSeq(k, Min(NonDash(k)), Max(NonDash(k)))
StrippedLeading(k) == IF NonDash(k) = {} THEN <<>> ELSE SubSeq(k, Min(NonDash(k)), Len(k))
Underscored(k) == [i \in 1..Len(k) |-> IF k[i] = "-" THEN "_" ELSE k[i]]

\* C4, as the claim states it: clean_opt returns key=value where the key is the
\* text before the first "=" with its leading dashes stripped and its remaining
\* hyphens replaced by underscores, the value is the text after the first "="
\* unchanged, and an argument without "=" gets the value True.
C4_CleanOptLeadingOnly ==
    last.op = "clean_opt" =>
        last.out = Underscored(StrippedLeading(ArgKey(last.arg))) \o <<"=">> \o ArgVal(last.arg)

\* C4, amended: the dashes are stripped at both ends of the key (trailing dashes
\* are removed too, not replaced by underscores); the rest is as claimed.
C4_CleanOpt ==
    last.op = "clean_opt" =>
        last.out = Underscored(StrippedBoth(ArgKey(last.arg))) \o <<"=">> \o ArgVal(last.arg)

\* clean_opt has been applied to an argument whose key ends with a dash and whose
\* value holds a dash.
C4_Witness ==
    /\ last.op = "clean_opt"
    /\ Contains(last.arg, "=")
    /\ NonDash(ArgKey(last.arg)) # {}
    /\ ArgKey(last.arg)[Len(ArgKey(last.arg))] = "-"
    /\ Contains(ArgVal(last.arg), "-")
    /\ last.out = StrippedBoth(ArgKey(last.arg)) \o <<"=">> \o ArgVal(last.arg)

Matches(pat) == {p \in fs : GlobMatch(pat, p)}
Unmatched(args) == {i \in 1..Len(args) : Matches(args[i]) = {}}
RECURSIVE Offset(_, _)
Offset(args, i) == IF i <= 1 THEN 0 ELSE Offset(args, i - 1) + Cardinality(Matches(args[i - 1]))
Ascending(seq) == \A i \in 1..(Len(seq) - 1) : StrLess(seq[i], seq[i + 1])
Range(seq) == {seq[i] : i \in 1..Len(seq)}
StartsWith(text, prefix) ==
    Len(text) >= Len(prefix) /\ SubSeq(text, 1, Len(prefix)) = prefix
Occurs(text, part) ==
    \E i \in 0..(Len(text) - Len(part)) : SubSeq(text, i + 1, i + Len(part)) = part

\* C7: path_glob returns, pattern by pattern in argument order, each pattern's
\* matches sorted lexicographically; with validate_paths a pattern without a
\* match makes the call raise FileNotFoundError naming the first such pattern and
\* nothing is returned, without validate_paths it contributes nothing.
C7_PathGlob ==
    last.op = "path.glob" =>
        IF last.validate_paths /\ Unmatched(last.args) # {}
            THEN /\ last.out.kind = "raise"
                 /\ last.out.type = "FileNotFoundError"
                 /\ StartsWith(last.out.msg, last.args[Min(Unmatched(last.args))])
            ELSE /\ last.out.kind = "ok"
                 /\ Len(last.out.val) = Offset(last.args, Len(last.args) + 1)
                 /\ \A i \in 1..Len(last.args) :
                        LET seg == SubSeq(last.out.val, Offset(last.args, i) + 1,
                                          Offset(last.args, i + 1))
                        IN  Ascending(seg) /\ Range(seg) = Matches(last.args[i])

\* path_glob, registered with validate_paths, was called with a pattern that
\* matches several paths followed by one that matches none, and raised.
C7_Witness ==
    /\ last.op = "path.glob"
    /\ last.validate_paths
    /\ Len(last.args) = 2
    /\ Cardinality(Matches(last.args[1])) >= 2
    /\ Matches(last.args[2]) = {}
    /\ last.out.kind = "raise"

UrlShaped(p) ==
    \E k \in 2..(Len(p) - 2) :
        /\ p[k] = ":" /\ p[k + 1] = "/" /\ p[k + 2] = "/"
        /\ \A i \in 1..(k - 1) : p[i] \in LowerAlnum
Qualifies(p) == UrlShaped(p) \/ p \in fs
Qualifying(args) == {i \in 1..Len(args) : Qualifies(args[i])}

\* C8: path_choose returns the first argument that is a URL ([a-z0-9]+://, no
\* existence check) or an existing path; when none qualifies it raises
\* FileNotFoundError listing every candidate with validate_paths, and returns
\* the empty string without it.
C8_PathChoose ==
    last.op = "path.choose" =>
        IF Qualifying(last.args) # {}
            THEN last.out = Ok(last.args[Min(Qualifying(last.args))])
        ELSE IF last.validate_paths
            THEN /\ last.out.kind = "raise"
                 /\ last.out.type = "FileNotFoundError"
                 /\ \A i \in 1..Len(last.args) : Occurs(last.out.msg, last.args[i])
        ELSE last.out = Ok(<<>>)

\* path_choose skipped a first argument that does not qualify and returned a URL
\* that is no existing path.
C8_Witness ==
    /\ last.op = "path.choose"
    /\ Len(last.args) = 2
    /\ ~Qualifies(last.args[1])
    /\ UrlShaped(last.args[2])
    /\ last.args[2] \notin fs
    /\ last.out = Ok(last.args[2])

\* the document load merges: the file's, or its subtree at key
MergedDoc == IF last.key = NoKey THEN yaml.m ELSE ValueOf(yaml.m, last.key).m
ScalarFields == {F_a, F_b, F_c, F_option_selector}
Addressing(overrides, k) == {i \in 1..Len(overrides) : ArgKey(overrides[i]) = k}
ListAPath == F_config_class_a \o <<".">> \o F_list_a
HasPlaceholder(v) ==
    \/ v.t = "interp"
    \/ v.t = "list" /\ \E i \in 1..Len(v.l) : v.l[i].t = "interp"
\* list_a as the document gives it, if it does
DocListA ==
    IF HasKey(MergedDoc, F_config_class_a)
          /\ HasKey(ValueOf(MergedDoc, F_config_class_a).m, F_list_a)
        THEN ValueOf(ValueOf(MergedDoc, F_config_class_a).m, F_list_a)
        ELSE ClassDefaults.ConfigClassA[F_list_a]

\* C1: in the object load returns, each field has the value of the last override
\* entry that addresses it, else the file's value, else the schema default.
C1_Precedence ==
    (last.op = "load" /\ last.out.kind = "ok") =>
        /\ \A k \in ScalarFields :
               last.out.val[k] =
                   IF Addressing(last.overrides, k) # {}
                       THEN entry_value(last.overrides[Max(Addressing(last.overrides, k))]).val
                   ELSE IF HasKey(MergedDoc, k) THEN ValueOf(MergedDoc, k)
                   ELSE ClassDefaults.ConfigClassC[k]
        /\ IF Addressing(last.overrides, ListAPath) # {}
               THEN last.out.val[F_config_class_a][F_list_a] =
                        entry_value(last.overrides[Max(Addressing(last.overrides, ListAPath))]).val
               ELSE HasPlaceholder(DocListA)
                        \/ last.out.val[F_config_class_a][F_list_a] = DocListA

\* load returned for a file that sets a and c and two overrides of c: the later
\* override decides c, the file decides a, b keeps its default.
C1_Witness ==
    /\ last.op = "load"
    /\ last.out.kind = "ok"
    /\ yaml = Doc_a_c
    /\ last.overrides = <<E_c_true, E_c_false>>
    /\ last.out.val[F_c] = BoolV(FALSE)
    /\ last.out.val[F_a] = IntV(5)
    /\ last.out.val[F_b] = NoneV

\* C2: a failure of new or load at the parse step reaches the caller as the
\* file or parse error it is, and a failure at any later step (key, merge,
\* overrides, materialization) reaches the caller as ConfigurationError.
C2_OnlyConfigurationError ==
    (last.op \in {"load", "new"} /\ last.out.kind = "raise") =>
        IF last.stage = "parse"
            THEN last.out.type \in {"FileNotFoundError", "ScannerError"}
            ELSE last.out.type = "ConfigurationError"

Bound(reg, validate_paths) ==
    /\ DOMAIN reg = {"path.glob", "path.choose"}
    /\ reg["path.glob"] = Closure("path_glob", validate_paths)
    /\ reg["path.choose"] = Closure("path_choose", validate_paths)

\* C3: after a call of load or new the registry binds path.glob and path.choose
\* to that call's closures and nothing else, and a placeholder that matches
\* nothing made the call fail exactly when its validate_paths was set.
C3_LastRegistrationWins ==
    last.op \in {"load", "new"} =>
        /\ Bound(registry, last.validate_paths)
        /\ (/\ last.op = "load"
            /\ yaml \in {Doc_glob, Doc_choose}
            /\ last.overrides = <<>>
            /\ last.key = NoKey)
               => (last.out.kind = "raise" <=> last.validate_paths)

\* load ran without validate_paths after a call that had registered the
\* resolvers with it, and resolved an unmatched pattern without failing.
C3_Witness ==
    /\ last.op = "load"
    /\ "path.glob" \in DOMAIN last.before
    /\ last.before["path.glob"].validate_paths
    /\ ~last.validate_paths
    /\ yaml = Doc_glob
    /\ last.overrides = <<>>
    /\ last.key = NoKey
    /\ last.stage = "returned"
    /\ Bound(registry, FALSE)

KeyMissing ==
    /\ last.op = "load"
    /\ last.key # NoKey
    /\ yaml.t = "map"
    /\ ~HasKey(yaml.m, last.key)

\* C6, as the claim states it: a key that is no top-level key of the document
\* makes load fail with an error that is not a ConfigurationError.
C6_LookupErrorUnwrapped ==
    KeyMissing => (last.out.kind = "raise" /\ last.out.type # "ConfigurationError")

\* C6, amended: such a key makes load fail at the key step with ConfigurationError
\* carrying the lookup error's message.
C6_LookupErrorWrapped ==
    KeyMissing =>
        /\ last.stage = "key"
        /\ last.out = Raise("ConfigurationError", <<"Missing key ">> \o last.key)

\* load was called with key "training" on a document without it and failed.
C6_Witness == KeyMissing /\ last.out.kind = "raise" /\ yaml = Doc_a_c

\* C10: a step that ends in a failed load leaves the class defaults and the
\* files as they were and the registry bound to the failed call's closures.
C10_FailedLoadFrame ==
    [][(last'.op = "load" /\ last'.out.kind = "raise") =>
           /\ defaults' = defaults
           /\ defaults' = ClassDefaults
           /\ fs' = fs
           /\ yaml' = yaml
           /\ Bound(registry', last'.validate_paths)]_vars

\* load failed at the overrides, after the file was merged, in a call without
\* validate_paths that followed a call with it.
C10_Witness ==
    /\ last.op = "load"
    /\ last.out.kind = "raise"
    /\ last.stage = "overrides"
    /\ yaml = Doc_a_c
    /\ ~last.validate_paths
    /\ "path.glob" \in DOMAIN last.before
    /\ last.before["path.glob"].validate_paths
    /\ Bound(registry, FALSE)
    /\ defaults = ClassDefaults

\* the call of thread t ended otherwise than its validate_paths says: it
\* failed without validate_paths, or resolved the unmatched path with it
Crossed(t) ==
    /\ tres[t].op = "load"
    /\ (tres[t].out.kind = "raise") # tres[t].validate_paths

\* C9: a call's placeholder is resolved by the resolver of another call's
\* setting only when the callers do not serialize load.
C9_CrossedOnlyUnserialized == \A t \in Threads : Crossed(t) => ~serialized

\* a call with validate_paths resolved the unmatched path without failing
C9_Witness ==
    \E t \in Threads :
        /\ tres[t].op = "load"
        /\ tres[t].validate_paths
        /\ tres[t].out.kind = "ok"

====
